---- MODULE Spec2Model ----
(***************************************************************************)
(* Model of the in-memory user graph service of src/main.go: the map       *)
(* users, the counter nextUserID, the RWMutex usersMutex and the six HTTP  *)
(* handlers.                                                               *)
(*                                                                         *)
(* Spec      runs the handlers one request at a time, each handler one     *)
(*           step (its whole locked section).                              *)
(* SpecConc  runs the handlers as goroutines, statement by statement,      *)
(*           under the RWMutex.                                            *)
(* SpecLinks runs concurrent /make_friends calls on disjoint pairs.        *)
(* SpecBatch runs one call per goroutine, all issued at once.              *)
(* SpecPlain is Spec with every user created without friends.              *)
(***************************************************************************)
EXTENDS Integers, Sequences, FiniteSets, TLC

\* ------------------------------------------------------------------ bounds
\* Creates served: nextUserID is capped at MaxUsers + 1.
MaxUsers == 2
\* Friend-list entries the store may hold in all.
MaxEntries == 4

\* --------------------------------------------------------------- strconv
Digits == <<"0", "1", "2", "3", "4", "5", "6", "7", "8", "9">>

\* strconv.Itoa: the decimal string of n, a sequence of characters.
RECURSIVE Itoa(_)
Itoa(n) ==
    IF n < 0 THEN <<"-">> \o Itoa(-n)
    ELSE IF n < 10 THEN <<Digits[n + 1]>>
    ELSE Itoa(n \div 10) \o <<Digits[(n % 10) + 1]>>

\* ------------------------------------------------------------ input sets
\* IDs a request may name: every ID the counter can hand out (each of them is
\* unknown before its create and after its delete) and a string that is no
\* output of Itoa ("01").
UserIDs == {Itoa(n) : n \in 1..MaxUsers}
IDs == UserIDs \cup {<<"0", "1">>}
Names == {"A"}
Ages == {-1, 0}

RECURSIVE SeqsUpTo(_, _)
SeqsUpTo(S, n) ==
    IF n = 0 THEN {<< >>}
    ELSE LET shorter == SeqsUpTo(S, n - 1)
         IN  shorter \cup {Append(s, x) : s \in {t \in shorter : Len(t) = n - 1}, x \in S}

\* type User struct {Name, Age, Friends}
User(name, age, friends) == [Name |-> name, Age |-> age, Friends |-> friends]
\* The "friends" array of a /create body: any IDs, known or not, repeated or not.
BodyFriends == SeqsUpTo(UserIDs, 1)
BodyUsers == {User(n, a, f) : n \in Names, a \in Ages, f \in BodyFriends}

VARIABLES
    users,          \* map[string]User
    nextUserID,     \* int
    resp,           \* the response to the request served last (Spec)
    issued,         \* the IDs /create has answered with, in order
    usersMutex,     \* sync.RWMutex: the goroutine holding it for writing, those reading
    pc,             \* per handler goroutine: the statement it is at
    request,        \* per handler goroutine: the request it decoded
    loc,            \* per handler goroutine: its local variables
    res,            \* per handler goroutine: the status and body it wrote
    calls,          \* requests accepted so far (SpecConc)
    start           \* the store the goroutines were started on (SpecBatch)

goroutines == <<usersMutex, pc, request, loc, res, calls, start>>
vars == <<users, nextUserID, resp, issued, usersMutex, pc, request, loc, res, calls, start>>

\* ---------------------------------------------------------------- status
StatusOK == "200 OK"
StatusCreated == "201 Created"
StatusBadRequest == "400 Bad Request"
StatusNotFound == "404 Not Found"

\* What the handler of a request wrote to its http.ResponseWriter.
Response(req, status, body) == [op |-> req.op, status |-> status, body |-> body]

Result(us, next, status, body) ==
    [users |-> us, nextUserID |-> next, status |-> status, body |-> body]

\* users[k] = v and delete(users, k) on a Go map.
MapPut(us, k, v) == [x \in (DOMAIN us) \cup {k} |-> IF x = k THEN v ELSE us[x]]
MapDelete(us, k) == [x \in (DOMAIN us) \ {k} |-> us[x]]
EmptyMap == << >>

\* -------------------------------------------------------------- requests
\* json.NewDecoder(r.Body).Decode: a body either decodes (valid) or not.
CreateReqs ==
    {[op |-> "create", valid |-> TRUE, user |-> u] : u \in BodyUsers}
        \cup {[op |-> "create", valid |-> FALSE]}
MakeFriendsReqs ==
    {[op |-> "make_friends", valid |-> TRUE, source_id |-> s, target_id |-> t] :
        s \in IDs, t \in IDs}
        \cup {[op |-> "make_friends", valid |-> FALSE]}
DeleteReqs ==
    {[op |-> "delete", valid |-> TRUE, target_id |-> t] : t \in IDs}
        \cup {[op |-> "delete", valid |-> FALSE]}
FriendsReqs == {[op |-> "friends", user_id |-> u] : u \in IDs}
UsersReqs == {[op |-> "users"]}
UserAgeReqs ==
    {[op |-> "user_age", valid |-> TRUE, user_id |-> u, new_age |-> a] :
        u \in IDs, a \in Ages}
        \cup {[op |-> "user_age", valid |-> FALSE, user_id |-> u] : u \in IDs}

\* -------------------------------------------------------------- handlers
\* generateUserID incrementing before it formats: the first ID is "2".
generateUserID_PreIncrement(next) == [id |-> Itoa(next + 1), nextUserID |-> next + 1]

\* func generateUserID() string
generateUserID(next) == [id |-> Itoa(next), nextUserID |-> next + 1]

\* func createUserHandler
createUserHandler(us, next, req) ==
    IF ~req.valid
    THEN Result(us, next, StatusBadRequest, "Invalid request body")
    ELSE LET g == generateUserID(next)
         IN  Result(MapPut(us, g.id, req.user), g.nextUserID, StatusCreated, g.id)

\* getAllUsersHandler taking the counter, not len(users), as the sign of an empty store.
getAllUsersHandler_Counter(us, next, req) ==
    IF next = 1
    THEN Result(us, next, StatusNotFound, "user list is empty")
    ELSE Result(us, next, StatusOK, us)

\* func getAllUsersHandler (encoding a map[string]User cannot fail; the
\* messages written in Russian are given in English)
getAllUsersHandler(us, next, req) ==
    IF Cardinality(DOMAIN us) = 0
    THEN Result(us, next, StatusNotFound, "user list is empty")
    ELSE Result(us, next, StatusOK, us)

\* The zero User a Go map lookup yields for a missing key.
ZeroUser == User("", 0, << >>)
Lookup(us, k) == IF k \in DOMAIN us THEN us[k] ELSE ZeroUser

\* makeFriendsHandler without its line 92: the target's record is not written back.
makeFriendsHandler_SourceOnly(us, next, req) ==
    IF ~req.valid
    THEN Result(us, next, StatusBadRequest, "Invalid request body")
    ELSE IF req.source_id \notin DOMAIN us \/ req.target_id \notin DOMAIN us
    THEN Result(us, next, StatusBadRequest, "One or both users not found")
    ELSE LET sourceUser ==
                 [us[req.source_id] EXCEPT !.Friends = Append(@, req.target_id)]
         IN  Result(MapPut(us, req.source_id, sourceUser), next, StatusOK,
                    <<sourceUser.Name, us[req.target_id].Name>>)

\* makeFriendsHandler with line 83 as "!sourceExists && !targetExists".
makeFriendsHandler_BothMissing(us, next, req) ==
    IF ~req.valid
    THEN Result(us, next, StatusBadRequest, "Invalid request body")
    ELSE IF req.source_id \notin DOMAIN us /\ req.target_id \notin DOMAIN us
    THEN Result(us, next, StatusBadRequest, "One or both users not found")
    ELSE LET sourceUser ==
                 [Lookup(us, req.source_id) EXCEPT !.Friends = Append(@, req.target_id)]
             targetUser ==
                 [Lookup(us, req.target_id) EXCEPT !.Friends = Append(@, req.source_id)]
             us1 == MapPut(us, req.source_id, sourceUser)
             us2 == MapPut(us1, req.target_id, targetUser)
         IN  Result(us2, next, StatusOK, <<sourceUser.Name, targetUser.Name>>)

\* makeFriendsHandler appending an ID only where the list does not hold it yet.
makeFriendsHandler_Dedup(us, next, req) ==
    IF ~req.valid
    THEN Result(us, next, StatusBadRequest, "Invalid request body")
    ELSE IF req.source_id \notin DOMAIN us \/ req.target_id \notin DOMAIN us
    THEN Result(us, next, StatusBadRequest, "One or both users not found")
    ELSE LET Add(l, x) == IF \E i \in 1..Len(l) : l[i] = x THEN l ELSE Append(l, x)
             sourceUser ==
                 [us[req.source_id] EXCEPT !.Friends = Add(@, req.target_id)]
             targetUser ==
                 [us[req.target_id] EXCEPT !.Friends = Add(@, req.source_id)]
             us1 == MapPut(us, req.source_id, sourceUser)
             us2 == MapPut(us1, req.target_id, targetUser)
         IN  Result(us2, next, StatusOK, <<sourceUser.Name, targetUser.Name>>)

\* func makeFriendsHandler
makeFriendsHandler(us, next, req) ==
    IF ~req.valid
    THEN Result(us, next, StatusBadRequest, "Invalid request body")
    ELSE IF req.source_id \notin DOMAIN us \/ req.target_id \notin DOMAIN us
    THEN Result(us, next, StatusBadRequest, "One or both users not found")
    ELSE LET sourceUser ==
                 [us[req.source_id] EXCEPT !.Friends = Append(@, req.target_id)]
             targetUser ==
                 [us[req.target_id] EXCEPT !.Friends = Append(@, req.source_id)]
             us1 == MapPut(us, req.source_id, sourceUser)
             us2 == MapPut(us1, req.target_id, targetUser)
         IN  Result(us2, next, StatusOK, <<sourceUser.Name, targetUser.Name>>)

\* The inner loop of deleteUserHandler without its break: every element equal
\* to id is dropped.
RemoveFirst_All(friends, id) == SelectSeq(friends, LAMBDA f : f # id)

\* The inner loop of deleteUserHandler: drop the first element equal to id.
RECURSIVE RemoveFirst(_, _)
RemoveFirst(friends, id) ==
    IF friends = << >> THEN << >>
    ELSE IF Head(friends) = id THEN Tail(friends)
    ELSE <<Head(friends)>> \o RemoveFirst(Tail(friends), id)

\* The outer loop of deleteUserHandler leaving after its first iteration.
Cascade_Once(us, friends, targetID) ==
    IF friends = << >> \/ Head(friends) \notin DOMAIN us THEN us
    ELSE MapPut(us, Head(friends),
                [us[Head(friends)] EXCEPT !.Friends = RemoveFirst(@, targetID)])

\* The outer loop of deleteUserHandler over targetUser.Friends.
RECURSIVE Cascade(_, _, _)
Cascade(us, friends, targetID) ==
    IF friends = << >> THEN us
    ELSE LET friendID == Head(friends)
         IN  IF friendID \notin DOMAIN us
             THEN Cascade(us, Tail(friends), targetID)
             ELSE LET friend ==
                          [us[friendID] EXCEPT !.Friends = RemoveFirst(@, targetID)]
                  IN  Cascade(MapPut(us, friendID, friend), Tail(friends), targetID)

\* func deleteUserHandler
deleteUserHandler(us, next, req) ==
    IF ~req.valid
    THEN Result(us, next, StatusBadRequest, "Invalid request body")
    ELSE IF req.target_id \notin DOMAIN us
    THEN Result(us, next, StatusBadRequest, "User not found")
    ELSE LET targetUser == us[req.target_id]
             us1 == MapDelete(us, req.target_id)
         IN  Result(Cascade(us1, targetUser.Friends, req.target_id), next,
                    StatusOK, targetUser.Name)

\* The loop of getUserFriendsHandler with "break" where the code has no else branch:
\* it stops at the first ID that does not resolve.
RECURSIVE FriendsDetails_Break(_, _)
FriendsDetails_Break(us, friends) ==
    IF friends = << >> THEN << >>
    ELSE IF Head(friends) \in DOMAIN us
    THEN <<us[Head(friends)]>> \o FriendsDetails_Break(us, Tail(friends))
    ELSE << >>

\* The loop of getUserFriendsHandler.
RECURSIVE FriendsDetails(_, _)
FriendsDetails(us, friends) ==
    IF friends = << >> THEN << >>
    ELSE IF Head(friends) \in DOMAIN us
    THEN <<us[Head(friends)]>> \o FriendsDetails(us, Tail(friends))
    ELSE FriendsDetails(us, Tail(friends))

\* func getUserFriendsHandler (encoding a []User cannot fail)
getUserFriendsHandler(us, next, req) ==
    IF req.user_id \notin DOMAIN us
    THEN Result(us, next, StatusBadRequest, "User not found")
    ELSE Result(us, next, StatusOK, FriendsDetails(us, us[req.user_id].Friends))

\* updateUserAgeHandler with a bounds check that refuses a negative age.
updateUserAgeHandler_NonNegative(us, next, req) ==
    IF ~req.valid
    THEN Result(us, next, StatusBadRequest, "Invalid request body")
    ELSE IF req.user_id \notin DOMAIN us \/ req.new_age < 0
    THEN Result(us, next, StatusBadRequest, "User not found")
    ELSE LET user == [us[req.user_id] EXCEPT !.Age = req.new_age]
         IN  Result(MapPut(us, req.user_id, user), next, StatusOK, "age updated")

\* func updateUserAgeHandler
updateUserAgeHandler(us, next, req) ==
    IF ~req.valid
    THEN Result(us, next, StatusBadRequest, "Invalid request body")
    ELSE IF req.user_id \notin DOMAIN us
    THEN Result(us, next, StatusBadRequest, "User not found")
    ELSE LET user == [us[req.user_id] EXCEPT !.Age = req.new_age]
         IN  Result(MapPut(us, req.user_id, user), next, StatusOK,
                    "age updated")

\* ------------------------------------------------------------------ Spec
\* Goroutines are numbered from 1.
NoProc == 0
NoReq == [op |-> "none"]
NoLocals == [op |-> "none"]
NoResult == [status |-> "", body |-> ""]
Unlocked == [writer |-> NoProc, readers |-> {}]
NoStart == [users |-> EmptyMap, nextUserID |-> 1]

Init ==
    /\ users = EmptyMap
    /\ nextUserID = 1
    /\ resp = Response(NoReq, "", "")
    /\ issued = << >>
    /\ usersMutex = Unlocked
    /\ pc = << >>
    /\ request = << >>
    /\ loc = << >>
    /\ res = << >>
    /\ calls = 0
    /\ start = NoStart

Serve(r, out) ==
    /\ users' = out.users
    /\ nextUserID' = out.nextUserID
    /\ resp' = Response(r, out.status, out.body)
    /\ UNCHANGED goroutines

\* The number of friend-list entries in the store.
RECURSIVE Entries(_)
Entries(us) ==
    IF DOMAIN us = {} THEN 0
    ELSE LET k == CHOOSE x \in DOMAIN us : TRUE
         IN  Len(us[k].Friends) + Entries([x \in (DOMAIN us) \ {k} |-> us[x]])

\* POST /create
CreateUser ==
    \E r \in CreateReqs :
        /\ r.valid => /\ nextUserID <= MaxUsers
                      /\ Entries(users) + Len(r.user.Friends) <= MaxEntries
        /\ LET out == createUserHandler(users, nextUserID, r)
           IN  /\ Serve(r, out)
               /\ issued' = IF out.status = StatusCreated
                            THEN Append(issued, out.body) ELSE issued

\* GET /users
GetAllUsers ==
    \E r \in UsersReqs :
        /\ Serve(r, getAllUsersHandler(users, nextUserID, r))
        /\ UNCHANGED issued

\* POST /make_friends
MakeFriends ==
    \E r \in MakeFriendsReqs :
        /\ Entries(users) + 2 <= MaxEntries
        /\ Serve(r, makeFriendsHandler(users, nextUserID, r))
        /\ UNCHANGED issued

\* DELETE /user
DeleteUser ==
    \E r \in DeleteReqs :
        /\ Serve(r, deleteUserHandler(users, nextUserID, r))
        /\ UNCHANGED issued

\* GET /friends/{user_id}
GetUserFriends ==
    \E r \in FriendsReqs :
        /\ Serve(r, getUserFriendsHandler(users, nextUserID, r))
        /\ UNCHANGED issued

\* PUT /user_age/{user_id}
UpdateUserAge ==
    \E r \in UserAgeReqs :
        /\ Serve(r, updateUserAgeHandler(users, nextUserID, r))
        /\ UNCHANGED issued

Next ==
    \/ CreateUser
    \/ GetAllUsers
    \/ MakeFriends
    \/ DeleteUser
    \/ GetUserFriends
    \/ UpdateUserAge

Spec == Init /\ [][Next]_vars

\* -------------------------------------------------------------- SpecConc
\* The handlers as goroutines, statement by statement. A goroutine decodes a
\* request, takes usersMutex (Lock or RLock), runs the handler's statements on
\* the shared map and counter, and releases the mutex on return (defer).

\* Requests accepted in all.
MaxCalls == 3

Goroutines == {1, 2}

Writes == {"create", "make_friends", "delete", "user_age"}
Reads == {"users", "friends"}

\* A Lock() that never waits.
CanLock_NoWait(m) == TRUE

\* A Lock() that waits for readers only: writers do not exclude each other.
CanLock_WritersOverlap(m) == m.readers = {}

\* A Lock() that waits for a writer only: it returns while readers hold the mutex.
CanLock_IgnoreReaders(m) == m.writer = NoProc

\* usersMutex.Lock() returns once no goroutine holds the mutex.
CanLock(m) == m.writer = NoProc /\ m.readers = {}
\* An RLock() that never waits.
CanRLock_NoWait(m) == TRUE

\* usersMutex.RLock() returns once no goroutine holds the mutex for writing.
CanRLock(m) == m.writer = NoProc

Goto(p, label) == pc' = [pc EXCEPT ![p] = label]
SetLocals(p, l) == loc' = [loc EXCEPT ![p] = l]
\* w.WriteHeader / http.Error and the body written
Write(p, status, body) == res' = [res EXCEPT ![p] = [status |-> status, body |-> body]]

\* json.NewDecoder(r.Body).Decode (chi.URLParam): a goroutine starts on a request;
\* a body that does not decode is answered 400 before the mutex is touched.
Decode(p, r) ==
    /\ pc[p] = "idle"
    /\ calls < MaxCalls
    /\ calls' = calls + 1
    /\ request' = [request EXCEPT ![p] = r]
    /\ SetLocals(p, NoLocals)
    /\ IF r.op \in {"create", "make_friends", "delete", "user_age"} /\ ~r.valid
       THEN Write(p, StatusBadRequest, "Invalid request body") /\ Goto(p, "idle")
       ELSE Write(p, "", "") /\ Goto(p, "lock")
    /\ UNCHANGED <<users, nextUserID, issued, resp, start, usersMutex>>

\* usersMutex.Lock()
Lock(p) ==
    /\ pc[p] = "lock"
    /\ request[p].op \in Writes
    /\ CanLock(usersMutex)
    /\ usersMutex' = [usersMutex EXCEPT !.writer = p]
    /\ Goto(p, request[p].op)
    /\ UNCHANGED <<users, nextUserID, issued, resp, start, request, loc, res, calls>>

\* usersMutex.RLock()
RLock(p) ==
    /\ pc[p] = "lock"
    /\ request[p].op \in Reads
    /\ CanRLock(usersMutex)
    /\ usersMutex' = [usersMutex EXCEPT !.readers = @ \cup {p}]
    /\ Goto(p, request[p].op)
    /\ UNCHANGED <<users, nextUserID, issued, resp, start, request, loc, res, calls>>

\* An Unlock() placed before the success answer only, not deferred: a handler
\* that returns early keeps the mutex.
Unlock_OnSuccessOnly(p) ==
    /\ pc[p] = "return"
    /\ usersMutex' = IF res[p].status \in {StatusBadRequest, StatusNotFound}
                     THEN usersMutex
                     ELSE IF request[p].op \in Writes
                     THEN [usersMutex EXCEPT !.writer = NoProc]
                     ELSE [usersMutex EXCEPT !.readers = @ \ {p}]
    /\ Goto(p, "idle")
    /\ SetLocals(p, NoLocals)
    /\ UNCHANGED <<users, nextUserID, issued, resp, start, request, res, calls>>

\* defer usersMutex.Unlock() / RUnlock(), run as the handler returns
Unlock(p) ==
    /\ pc[p] = "return"
    /\ usersMutex' = IF request[p].op \in Writes
                     THEN [usersMutex EXCEPT !.writer = NoProc]
                     ELSE [usersMutex EXCEPT !.readers = @ \ {p}]
    /\ Goto(p, "idle")
    /\ SetLocals(p, NoLocals)
    /\ UNCHANGED <<users, nextUserID, issued, resp, start, request, res, calls>>

\* createUserHandler, line 41: id := strconv.Itoa(nextUserID)
CreateReadID(p) ==
    /\ pc[p] = "create"
    /\ SetLocals(p, [userID |-> generateUserID(nextUserID).id])
    /\ Goto(p, "create_inc")
    /\ UNCHANGED <<users, nextUserID, issued, resp, start, usersMutex, request, res, calls>>

\* createUserHandler, line 41: nextUserID++
CreateIncrement(p) ==
    /\ pc[p] = "create_inc"
    /\ nextUserID' = generateUserID(nextUserID).nextUserID
    /\ Goto(p, "create_put")
    /\ UNCHANGED <<users, issued, resp, start, usersMutex, request, loc, res, calls>>

\* createUserHandler, lines 42-45
CreatePut(p) ==
    /\ pc[p] = "create_put"
    /\ users' = MapPut(users, loc[p].userID, request[p].user)
    /\ Write(p, StatusCreated, loc[p].userID)
    /\ issued' = Append(issued, loc[p].userID)
    /\ Goto(p, "return")
    /\ UNCHANGED <<nextUserID, resp, start, usersMutex, request, loc, calls>>

\* getAllUsersHandler, lines 52-63
UsersRead(p) ==
    /\ pc[p] = "users"
    /\ IF Cardinality(DOMAIN users) = 0
       THEN Write(p, StatusNotFound, "user list is empty")
       ELSE Write(p, StatusOK, users)
    /\ Goto(p, "return")
    /\ UNCHANGED <<users, nextUserID, issued, resp, start, usersMutex, request, loc, calls>>

\* makeFriendsHandler, lines 80-89
LinkRead(p) ==
    /\ pc[p] = "make_friends"
    /\ LET s == request[p].source_id
           t == request[p].target_id
       IN  IF s \notin DOMAIN users \/ t \notin DOMAIN users
           THEN /\ Write(p, StatusBadRequest, "One or both users not found")
                /\ Goto(p, "return")
                /\ UNCHANGED loc
           ELSE /\ SetLocals(p, [sourceUser |-> [users[s] EXCEPT !.Friends = Append(@, t)],
                                 targetUser |-> [users[t] EXCEPT !.Friends = Append(@, s)]])
                /\ Goto(p, "link_put_source")
                /\ UNCHANGED res
    /\ UNCHANGED <<users, nextUserID, issued, resp, start, usersMutex, request, calls>>

\* makeFriendsHandler, line 91
LinkPutSource(p) ==
    /\ pc[p] = "link_put_source"
    /\ users' = MapPut(users, request[p].source_id, loc[p].sourceUser)
    /\ Goto(p, "link_put_target")
    /\ UNCHANGED <<nextUserID, issued, resp, start, usersMutex, request, loc, res, calls>>

\* makeFriendsHandler answering without its line 92.
LinkPutTarget_NoPut(p) ==
    /\ pc[p] = "link_put_target"
    /\ Write(p, StatusOK, <<loc[p].sourceUser.Name, loc[p].targetUser.Name>>)
    /\ Goto(p, "return")
    /\ UNCHANGED <<users, nextUserID, issued, resp, start, usersMutex, request, loc, calls>>

\* makeFriendsHandler, lines 92-95
LinkPutTarget(p) ==
    /\ pc[p] = "link_put_target"
    /\ users' = MapPut(users, request[p].target_id, loc[p].targetUser)
    /\ Write(p, StatusOK, <<loc[p].sourceUser.Name, loc[p].targetUser.Name>>)
    /\ Goto(p, "return")
    /\ UNCHANGED <<nextUserID, issued, resp, start, usersMutex, request, loc, calls>>

\* deleteUserHandler, lines 111-115
DeleteRead(p) ==
    /\ pc[p] = "delete"
    /\ IF request[p].target_id \notin DOMAIN users
       THEN /\ Write(p, StatusBadRequest, "User not found")
            /\ Goto(p, "return")
            /\ UNCHANGED loc
       ELSE /\ SetLocals(p, [targetUser |-> users[request[p].target_id], i |-> 1])
            /\ Goto(p, "delete_remove")
            /\ UNCHANGED res
    /\ UNCHANGED <<users, nextUserID, issued, resp, start, usersMutex, request, calls>>

\* deleteUserHandler, line 117
DeleteRemove(p) ==
    /\ pc[p] = "delete_remove"
    /\ users' = MapDelete(users, request[p].target_id)
    /\ Goto(p, "delete_loop")
    /\ UNCHANGED <<nextUserID, issued, resp, start, usersMutex, request, loc, res, calls>>

\* deleteUserHandler, lines 119-134: one iteration of the loop over
\* targetUser.Friends, or the answer once the loop is over
DeleteLoop(p) ==
    /\ pc[p] = "delete_loop"
    /\ LET friends == loc[p].targetUser.Friends
           i == loc[p].i
       IN  IF i > Len(friends)
           THEN /\ Write(p, StatusOK, loc[p].targetUser.Name)
                /\ Goto(p, "return")
                /\ UNCHANGED <<users, loc>>
           ELSE /\ users' = IF friends[i] \in DOMAIN users
                            THEN MapPut(users, friends[i],
                                     [users[friends[i]] EXCEPT
                                         !.Friends = RemoveFirst(@, request[p].target_id)])
                            ELSE users
                /\ SetLocals(p, [loc[p] EXCEPT !.i = i + 1])
                /\ UNCHANGED <<pc, res>>
    /\ UNCHANGED <<nextUserID, issued, resp, start, usersMutex, request, calls>>

\* getUserFriendsHandler, lines 143-149
FriendsRead(p) ==
    /\ pc[p] = "friends"
    /\ IF request[p].user_id \notin DOMAIN users
       THEN /\ Write(p, StatusBadRequest, "User not found")
            /\ Goto(p, "return")
            /\ UNCHANGED loc
       ELSE /\ SetLocals(p, [user |-> users[request[p].user_id], i |-> 1,
                             friendsDetails |-> << >>])
            /\ Goto(p, "friends_loop")
            /\ UNCHANGED res
    /\ UNCHANGED <<users, nextUserID, issued, resp, start, usersMutex, request, calls>>

\* getUserFriendsHandler, lines 151-163: one iteration of the loop over
\* user.Friends, or the answer once the loop is over
FriendsLoop(p) ==
    /\ pc[p] = "friends_loop"
    /\ LET friends == loc[p].user.Friends
           i == loc[p].i
       IN  IF i > Len(friends)
           THEN /\ Write(p, StatusOK, loc[p].friendsDetails)
                /\ Goto(p, "return")
                /\ UNCHANGED loc
           ELSE /\ SetLocals(p, [loc[p] EXCEPT
                                    !.i = i + 1,
                                    !.friendsDetails =
                                        IF friends[i] \in DOMAIN users
                                        THEN Append(@, users[friends[i]]) ELSE @])
                /\ UNCHANGED <<pc, res>>
    /\ UNCHANGED <<users, nextUserID, issued, resp, start, usersMutex, request, calls>>

\* updateUserAgeHandler, lines 181-187
AgeRead(p) ==
    /\ pc[p] = "user_age"
    /\ IF request[p].user_id \notin DOMAIN users
       THEN /\ Write(p, StatusBadRequest, "User not found")
            /\ Goto(p, "return")
            /\ UNCHANGED loc
       ELSE /\ SetLocals(p, [user |-> [users[request[p].user_id] EXCEPT
                                          !.Age = request[p].new_age]])
            /\ Goto(p, "age_put")
            /\ UNCHANGED res
    /\ UNCHANGED <<users, nextUserID, issued, resp, start, usersMutex, request, calls>>

\* updateUserAgeHandler, lines 188-191
AgePut(p) ==
    /\ pc[p] = "age_put"
    /\ users' = MapPut(users, request[p].user_id, loc[p].user)
    /\ Write(p, StatusOK, "age updated")
    /\ Goto(p, "return")
    /\ UNCHANGED <<nextUserID, issued, resp, start, usersMutex, request, loc, calls>>

\* The requests the goroutines of SpecConc serve.
ConcIDs == {Itoa(1), Itoa(2)}
ConcReqs ==
    {[op |-> "create", valid |-> TRUE, user |-> User("A", 0, << >>)],
     [op |-> "create", valid |-> FALSE],
     [op |-> "users"]}
        \cup {[op |-> "make_friends", valid |-> TRUE, source_id |-> s, target_id |-> t] :
                 s \in ConcIDs, t \in ConcIDs}
        \cup {[op |-> "delete", valid |-> TRUE, target_id |-> t] : t \in ConcIDs}
        \cup {[op |-> "friends", user_id |-> u] : u \in ConcIDs}
        \cup {[op |-> "user_age", valid |-> TRUE, user_id |-> u, new_age |-> -1] :
                 u \in ConcIDs}

\* The handler serving a request, as one step (Spec).
Handle(us, next, r) ==
    CASE r.op = "create" -> createUserHandler(us, next, r)
      [] r.op = "users" -> getAllUsersHandler(us, next, r)
      [] r.op = "make_friends" -> makeFriendsHandler(us, next, r)
      [] r.op = "delete" -> deleteUserHandler(us, next, r)
      [] r.op = "friends" -> getUserFriendsHandler(us, next, r)
      [] r.op = "user_age" -> updateUserAgeHandler(us, next, r)

\* The store after serving the requests rs one after another from the empty store.
RECURSIVE After(_)
After(rs) ==
    IF rs = << >> THEN [users |-> EmptyMap, nextUserID |-> 1, issued |-> << >>]
    ELSE LET before == After(SubSeq(rs, 1, Len(rs) - 1))
             r == rs[Len(rs)]
             out == Handle(before.users, before.nextUserID, r)
         IN  [users |-> out.users, nextUserID |-> out.nextUserID,
              issued |-> IF out.status = StatusCreated
                         THEN Append(before.issued, out.body) ELSE before.issued]

CreateReq(friends) == [op |-> "create", valid |-> TRUE, user |-> User("A", 0, friends)]
\* The histories SpecConc starts after.
Histories ==
    {<< >>,
     <<CreateReq(<< >>)>>,
     <<CreateReq(<< >>), CreateReq(<< >>)>>,
     <<CreateReq(<< >>), CreateReq(<<Itoa(1)>>)>>,
     <<CreateReq(<< >>), [op |-> "delete", valid |-> TRUE, target_id |-> Itoa(1)]>>,
     <<CreateReq(<< >>), CreateReq(<< >>),
       [op |-> "make_friends", valid |-> TRUE, source_id |-> Itoa(1), target_id |-> Itoa(2)]>>}

InitConc ==
    /\ \E h \in Histories :
           /\ users = After(h).users
           /\ nextUserID = After(h).nextUserID
           /\ issued = After(h).issued
    /\ resp = Response(NoReq, "", "")
    /\ usersMutex = Unlocked
    /\ pc = [p \in Goroutines |-> "idle"]
    /\ request = [p \in Goroutines |-> NoReq]
    /\ loc = [p \in Goroutines |-> NoLocals]
    /\ res = [p \in Goroutines |-> NoResult]
    /\ calls = 0
    /\ start = NoStart

Step(p) ==
    \/ Lock(p)
    \/ RLock(p)
    \/ Unlock(p)
    \/ CreateReadID(p)
    \/ CreateIncrement(p)
    \/ CreatePut(p)
    \/ UsersRead(p)
    \/ LinkRead(p)
    \/ LinkPutSource(p)
    \/ LinkPutTarget(p)
    \/ DeleteRead(p)
    \/ DeleteRemove(p)
    \/ DeleteLoop(p)
    \/ FriendsRead(p)
    \/ FriendsLoop(p)
    \/ AgeRead(p)
    \/ AgePut(p)

NextConc ==
    \E p \in Goroutines :
        \/ \E r \in ConcReqs : Decode(p, r)
        \/ Step(p)

SpecConc == InitConc /\ [][NextConc]_vars

\* ------------------------------------------------------------- SpecLinks
\* NumPairs goroutines, each with a /make_friends request of its own, on
\* pairwise disjoint pairs of the 2 * NumPairs users of the store.
NumPairs == 2

LinkGoroutines == 1..NumPairs
LinkIDs == {Itoa(n) : n \in 1..(2 * NumPairs)}
\* The friend list every user of SpecLinks was created with.
LinkBodies == {<< >>, <<Itoa(1)>>}
\* The ways to hand each goroutine a pair, no ID in two pairs or twice in one.
Pairings ==
    {f \in [1..(2 * NumPairs) -> LinkIDs] :
        \A i \in DOMAIN f, j \in DOMAIN f : i # j => f[i] # f[j]}

InitLinks ==
    /\ \E friends \in LinkBodies :
           LET s == After([i \in 1..(2 * NumPairs) |-> CreateReq(friends)])
           IN  /\ users = s.users
               /\ nextUserID = s.nextUserID
               /\ issued = s.issued
    /\ \E f \in Pairings :
           request = [p \in LinkGoroutines |->
                         [op |-> "make_friends", valid |-> TRUE,
                          source_id |-> f[2 * p - 1], target_id |-> f[2 * p]]]
    /\ resp = Response(NoReq, "", "")
    /\ usersMutex = Unlocked
    /\ pc = [p \in LinkGoroutines |-> "lock"]
    /\ loc = [p \in LinkGoroutines |-> NoLocals]
    /\ res = [p \in LinkGoroutines |-> NoResult]
    /\ calls = NumPairs
    /\ start = NoStart

NextLinks ==
    \E p \in LinkGoroutines :
        \/ Lock(p)
        \/ LinkRead(p)
        \/ LinkPutSource(p)
        \/ LinkPutTarget(p)
        \/ Unlock(p)

SpecLinks == InitLinks /\ [][NextLinks]_vars

\* ------------------------------------------------------------- SpecBatch
\* A set of calls issued at once: every goroutine has decoded one request and
\* is about to take usersMutex; the store is the one left by an earlier history.
BatchGoroutines == {1, 2, 3}
BatchReqs ==
    {CreateReq(<< >>),
     [op |-> "users"],
     [op |-> "make_friends", valid |-> TRUE, source_id |-> Itoa(1), target_id |-> Itoa(2)],
     [op |-> "delete", valid |-> TRUE, target_id |-> Itoa(2)],
     [op |-> "friends", user_id |-> Itoa(1)],
     [op |-> "user_age", valid |-> TRUE, user_id |-> Itoa(2), new_age |-> -1]}

InitBatch ==
    /\ \E h \in Histories :
           /\ users = After(h).users
           /\ nextUserID = After(h).nextUserID
           /\ issued = After(h).issued
           /\ start = [users |-> After(h).users, nextUserID |-> After(h).nextUserID]
    /\ request \in [BatchGoroutines -> BatchReqs]
    /\ resp = Response(NoReq, "", "")
    /\ usersMutex = Unlocked
    /\ pc = [p \in BatchGoroutines |-> "lock"]
    /\ loc = [p \in BatchGoroutines |-> NoLocals]
    /\ res = [p \in BatchGoroutines |-> NoResult]
    /\ calls = Cardinality(BatchGoroutines)

NextBatch == \E p \in BatchGoroutines : Step(p)

SpecBatch == InitBatch /\ [][NextBatch]_vars

\* SpecBatch under a fair scheduler: a goroutine that can take a step, and
\* stays able to, takes one.
SpecBatchFair == SpecBatch /\ \A p \in BatchGoroutines : WF_vars(Step(p))

\* ------------------------------------------------------------- SpecPlain
\* Spec with every user created without friends: the "friends" array of each
\* /create body is empty or absent.
CreateUserPlain ==
    \E r \in CreateReqs :
        /\ r.valid => /\ nextUserID <= MaxUsers
                      /\ r.user.Friends = << >>
        /\ LET out == createUserHandler(users, nextUserID, r)
           IN  /\ Serve(r, out)
               /\ issued' = IF out.status = StatusCreated
                            THEN Append(issued, out.body) ELSE issued

NextPlain ==
    \/ CreateUserPlain
    \/ GetAllUsers
    \/ MakeFriends
    \/ DeleteUser
    \/ GetUserFriends
    \/ UpdateUserAge

SpecPlain == Init /\ [][NextPlain]_vars

\* ================================================================ claims
\* Occurrences of x in a friend list.
Count(friends, x) == Cardinality({i \in 1..Len(friends) : friends[i] = x})
Occurs(friends, x) == \E i \in 1..Len(friends) : friends[i] = x

LinkReq(s, t) == [op |-> "make_friends", valid |-> TRUE, source_id |-> s, target_id |-> t]
DeleteReq(t) == [op |-> "delete", valid |-> TRUE, target_id |-> t]
AgeReq(u, a) == [op |-> "user_age", valid |-> TRUE, user_id |-> u, new_age |-> a]
FriendsReq(u) == [op |-> "friends", user_id |-> u]

\* What each handler answers in the current state.
Link(s, t) == makeFriendsHandler(users, nextUserID, LinkReq(s, t))
Delete(t) == deleteUserHandler(users, nextUserID, DeleteReq(t))
UpdateAge(u, a) == updateUserAgeHandler(users, nextUserID, AgeReq(u, a))
GetFriends(u) == getUserFriendsHandler(users, nextUserID, FriendsReq(u))

\* C1: in every reachable store, a Link(A,B) of two existing IDs succeeds and
\* leaves B in A's friend list and A in B's friend list.
C1_LinkSymmetric ==
    \A a \in IDs, b \in IDs :
        LET r == Link(a, b)
        IN  /\ (a \in DOMAIN users /\ b \in DOMAIN users) => r.status = StatusOK
            /\ r.status = StatusOK =>
                   /\ a \in DOMAIN r.users /\ b \in DOMAIN r.users
                   /\ Occurs(r.users[a].Friends, b)
                   /\ Occurs(r.users[b].Friends, a)

\* A successful Link of two different users was served last, and they list each other.
C1_Witness ==
    /\ resp.op = "make_friends" /\ resp.status = StatusOK
    /\ nextUserID > 2
    /\ \E a \in DOMAIN users, b \in DOMAIN users :
           a # b /\ Occurs(users[a].Friends, b) /\ Occurs(users[b].Friends, a)

\* C2 (as claimed): after a successful DeleteUser(X), X is no key of the store
\* and occurs in no remaining user's friend list.
C2_DeleteRemovesAll ==
    \A x \in IDs :
        LET r == Delete(x)
        IN  r.status = StatusOK =>
                /\ x \notin DOMAIN r.users
                /\ \A u \in DOMAIN r.users : ~Occurs(r.users[u].Friends, x)

\* C4: a Link, DeleteUser or UpdateAge naming an ID that is not in the store
\* fails with 400 and hands back the store and the counter as they were.
Untouched(r) ==
    /\ r.status = StatusBadRequest
    /\ r.users = users
    /\ r.nextUserID = nextUserID
C4_FailedCallChangesNothing ==
    /\ \A s \in IDs, t \in IDs :
           (s \notin DOMAIN users \/ t \notin DOMAIN users) => Untouched(Link(s, t))
    /\ \A x \in IDs : x \notin DOMAIN users => Untouched(Delete(x))
    /\ \A u \in IDs, a \in Ages : u \notin DOMAIN users => Untouched(UpdateAge(u, a))

\* A Link was refused last for an unknown user, in a store where some Link names
\* an existing source and an unknown target.
C4_Witness ==
    /\ resp.op = "make_friends" /\ resp.status = StatusBadRequest
    /\ resp.body = "One or both users not found"
    /\ \E s \in DOMAIN users, t \in IDs : t \notin DOMAIN users /\ users[s].Friends # << >>

\* C5: for two different existing users whose lists do not mention each other,
\* two Link(A,B) calls in a row both succeed and leave exactly two B in A's
\* list and exactly two A in B's list.
C5_LinkTwiceAppendsTwice ==
    \A a \in DOMAIN users, b \in DOMAIN users :
        (a # b /\ ~Occurs(users[a].Friends, b) /\ ~Occurs(users[b].Friends, a)) =>
            LET r1 == Link(a, b)
                r2 == makeFriendsHandler(r1.users, r1.nextUserID, LinkReq(a, b))
            IN  /\ r1.status = StatusOK /\ r2.status = StatusOK
                /\ Count(r2.users[a].Friends, b) = 2
                /\ Count(r2.users[b].Friends, a) = 2

\* A successful Link was served last and two different users hold each other twice.
C5_Witness ==
    /\ resp.op = "make_friends" /\ resp.status = StatusOK
    /\ \E a \in DOMAIN users, b \in DOMAIN users :
           a # b /\ users[a].Friends = <<b, b>> /\ users[b].Friends = <<a, a>>

\* The records GetFriends(u) is to return: one per entry of u's list that is a
\* key of the store, in list order.
LiveFriends(u) == SelectSeq(users[u].Friends, LAMBDA f : f \in DOMAIN users)
IsFriendsOf(body, u) ==
    /\ Len(body) = Len(LiveFriends(u))
    /\ \A i \in 1..Len(body) : body[i] = users[LiveFriends(u)[i]]

\* C6: GetFriends(U) succeeds for every U in the store, with one record per
\* entry of U's list whose ID is in the store, in list order, entries not in
\* the store left out; it fails exactly when U is not in the store, and it
\* leaves the store as it was.
C6_GetFriendsSkipsStale ==
    \A u \in IDs :
        LET r == GetFriends(u)
        IN  /\ r.users = users /\ r.nextUserID = nextUserID
            /\ u \in DOMAIN users =>
                   /\ r.status = StatusOK
                   /\ IsFriendsOf(r.body, u)
            /\ u \notin DOMAIN users => r.status = StatusBadRequest

\* GetFriends was answered last with a record, for a user whose list holds an
\* unknown ID before a known one.
C6_Witness ==
    /\ resp.op = "friends" /\ resp.status = StatusOK
    /\ \E u \in DOMAIN users :
           /\ IsFriendsOf(resp.body, u)
           /\ Len(resp.body) > 0
           /\ \E i \in 1..Len(users[u].Friends), j \in 1..Len(users[u].Friends) :
                  /\ i < j
                  /\ users[u].Friends[i] \notin DOMAIN users
                  /\ users[u].Friends[j] \in DOMAIN users

\* C7: the answer to ListUsers is the empty-collection failure exactly when
\* the store holds no user, and otherwise 200 with the whole map.
C7_ListUsersEmptyIsNotFound ==
    resp.op = "users" =>
        /\ resp.status = StatusNotFound <=> DOMAIN users = {}
        /\ resp.status # StatusNotFound => (resp.status = StatusOK /\ resp.body = users)

\* ListUsers failed on a store emptied by deletes.
C7_Witness ==
    /\ resp.op = "users" /\ resp.status = StatusNotFound
    /\ nextUserID > 1 /\ DOMAIN users = {}

\* C9: UpdateAge(U, n) of an existing U succeeds for every n (negative, zero
\* and positive), sets U's age to n, and changes neither U's name and friend
\* list, nor another user, nor the set of users, nor the counter.
C9_UpdateAgeOnlyAge ==
    \A u \in DOMAIN users, n \in Ages \cup {1} :
        LET r == UpdateAge(u, n)
        IN  /\ r.status = StatusOK
            /\ r.nextUserID = nextUserID
            /\ DOMAIN r.users = DOMAIN users
            /\ r.users[u].Age = n
            /\ r.users[u].Name = users[u].Name
            /\ r.users[u].Friends = users[u].Friends
            /\ \A o \in (DOMAIN users) \ {u} : r.users[o] = users[o]

\* UpdateAge succeeded last and a user with friends has a negative age while
\* another user has age zero.
C9_Witness ==
    /\ resp.op = "user_age" /\ resp.status = StatusOK
    /\ \E u \in DOMAIN users, o \in DOMAIN users :
           /\ u # o
           /\ users[u].Age < 0 /\ users[u].Friends # << >>
           /\ users[o].Age = 0

\* C10 (as claimed): after a successful Link or DeleteUser, whenever B occurs
\* in A's friend list, A occurs in B's, for all users A and B of the store.
Bidirectional(us) ==
    \A a \in DOMAIN us, b \in DOMAIN us :
        Occurs(us[a].Friends, b) => Occurs(us[b].Friends, a)
C10_BidirectionalAfterLinkOrDelete ==
    (resp.op \in {"make_friends", "delete"} /\ resp.status = StatusOK)
        => Bidirectional(users)

\* The number a decimal string stands for.
DigitValue(c) == CHOOSE d \in 0..9 : Digits[d + 1] = c
RECURSIVE Atoi(_)
Atoi(str) ==
    IF str = << >> THEN 0
    ELSE 10 * Atoi(SubSeq(str, 1, Len(str) - 1)) + DigitValue(str[Len(str)])

\* C3: under every interleaving of the goroutines, the IDs /create has
\* answered with are strictly increasing as numbers in the order they were
\* answered: each differs from and exceeds every earlier one, deleted or not.
C3_IssuedIDsIncrease ==
    \A i \in 1..Len(issued), j \in 1..Len(issued) :
        i < j => Atoi(issued[i]) < Atoi(issued[j])

\* Both goroutines have been answered by /create, after the user of an
\* earlier ID was deleted.
C3_Witness ==
    /\ \A p \in Goroutines : pc[p] = "idle" /\ res[p].status = StatusCreated
    /\ res[1].body # res[2].body
    /\ \E i \in 1..Len(issued) :
           /\ issued[i] \notin DOMAIN users
           /\ \A p \in Goroutines : Atoi(issued[i]) < Atoi(res[p].body)

\* C8: once the concurrent Links on disjoint pairs have all returned, all of
\* them succeeded and each pair (A,B) has B appended to A's list and A to B's,
\* on top of the list the users were created with; until then some goroutine
\* can take a step.
AllReturned == \A p \in DOMAIN pc : pc[p] = "idle"
C8_DisjointLinksAllApplied ==
    /\ ~AllReturned => ENABLED NextLinks
    /\ AllReturned =>
           /\ \A p \in DOMAIN pc : res[p].status = StatusOK
           /\ \E friends \in LinkBodies :
                  \A p \in DOMAIN pc :
                      LET a == request[p].source_id
                          b == request[p].target_id
                      IN  /\ users[a].Friends = Append(friends, b)
                          /\ users[b].Friends = Append(friends, a)

\* All the Links have returned with 200 and every user, created with one
\* friend, now has two.
C8_Witness ==
    /\ AllReturned
    /\ \A p \in DOMAIN pc : res[p].status = StatusOK
    /\ \A u \in DOMAIN users : Len(users[u].Friends) = 2

\* The goroutines in the orders they can be served one after another.
Orders(G) ==
    {o \in [1..Cardinality(G) -> G] : \A i, j \in DOMAIN o : i # j => o[i] # o[j]}

\* The store and the answers after serving the requests of the goroutines
\* order[1], order[2], ... one after another on the store the batch started on.
RECURSIVE Serial(_)
Serial(order) ==
    IF order = << >>
    THEN [users |-> start.users, nextUserID |-> start.nextUserID, answers |-> << >>]
    ELSE LET before == Serial(SubSeq(order, 1, Len(order) - 1))
             out == Handle(before.users, before.nextUserID, request[order[Len(order)]])
         IN  [users |-> out.users, nextUserID |-> out.nextUserID,
              answers |-> Append(before.answers, [status |-> out.status, body |-> out.body])]

\* C11: once the calls issued together have all returned, the answers they got
\* and the store they left are those of serving the same calls one after
\* another in some order.
C11_SomeSerialOrder ==
    AllReturned =>
        \E order \in Orders(DOMAIN pc) :
            LET s == Serial(order)
            IN  /\ users = s.users
                /\ nextUserID = s.nextUserID
                /\ \A i \in DOMAIN order : res[order[i]] = s.answers[i]

\* A create, a Link and a GetFriends issued together on a store of two users
\* have all returned, the GetFriends with a record.
C11_Witness ==
    /\ AllReturned
    /\ \E p, q, r \in DOMAIN pc :
           /\ request[p].op = "create" /\ res[p].status = StatusCreated
           /\ request[q].op = "make_friends" /\ res[q].status = StatusOK
           /\ request[r].op = "friends" /\ res[r].status = StatusOK
           /\ res[r].body # << >>

\* A goroutine is inside its locked section from the return of Lock or RLock
\* to the deferred Unlock.
Inside(p) == pc[p] \notin {"idle", "lock"}
Writing(p) == Inside(p) /\ request[p].op \in Writes
Reading(p) == Inside(p) /\ request[p].op \in Reads

\* C12: while a create, link, delete or update-age is inside its locked
\* section no other goroutine is inside its own, and a step of a list or
\* get-friends changes neither the map nor the counter.
C12_LockDiscipline ==
    /\ [](\A p \in DOMAIN pc : Writing(p) => \A q \in (DOMAIN pc) \ {p} : ~Inside(q))
    /\ [][\A p \in DOMAIN pc :
             (Reading(p) /\ (pc'[p] # pc[p] \/ loc'[p] # loc[p] \/ res'[p] # res[p]))
                 => (users' = users /\ nextUserID' = nextUserID)]_vars

\* A list and a get-friends are inside their locked sections at once while a
\* writer waits for the mutex.
C12_Witness ==
    \E p, q, w \in DOMAIN pc :
        /\ p # q
        /\ Reading(p) /\ request[p].op = "users"
        /\ Reading(q) /\ request[q].op = "friends" /\ pc[q] = "friends_loop"
        /\ request[w].op \in Writes /\ pc[w] = "lock"

\* A Link has written the source's record and not yet the target's; a
\* DeleteUser has removed the record and not yet answered.
HalfLinked(q) == pc[q] = "link_put_target"
HalfDeleted(q) == pc[q] = "delete_loop"

\* C13: while a list or a get-friends is inside its locked section, reading
\* the map, no Link is between its two writes and no DeleteUser is between
\* removing the record and the end of its loop over the friends.
C13_NoTornRead ==
    \A p \in DOMAIN pc :
        Reading(p) => \A q \in DOMAIN pc : ~HalfLinked(q) /\ ~HalfDeleted(q)

\* A get-friends is reading the map while a Link and a DeleteUser of users it
\* would see wait for the mutex.
C13_Witness ==
    \E p, q, w \in DOMAIN pc :
        /\ Reading(p) /\ pc[p] = "friends_loop"
        /\ request[q].op = "make_friends" /\ pc[q] = "lock"
        /\ request[w].op = "delete" /\ pc[w] = "lock"
        /\ request[w].target_id \in DOMAIN users

\* Goroutine p holds usersMutex, for writing or for reading.
Holds(p) == usersMutex.writer = p \/ p \in usersMutex.readers

\* C14: under fair scheduling every call that asks for the mutex gets it and
\* every call inside its locked section returns with the mutex released, on
\* success and on failure alike; while a call is pending some goroutine can
\* take a step; no goroutine takes the mutex while holding it, and none holds
\* it after its return.
C14_NoDeadlockAndCompletion ==
    /\ \A p \in BatchGoroutines : (pc[p] = "lock") ~> Inside(p)
    /\ \A p \in BatchGoroutines : Inside(p) ~> (pc[p] = "idle" /\ ~Holds(p))
    /\ []((\E p \in BatchGoroutines : pc[p] # "idle") => ENABLED NextBatch)
    /\ [](\A p \in BatchGoroutines : pc[p] \in {"idle", "lock"} => ~Holds(p))
    /\ [][\A p \in BatchGoroutines : (~Holds(p)' \/ Holds(p)) \/ pc[p] = "lock"]_vars

\* All the calls have returned, one with 404 from an empty store, one with
\* 400 for an unknown ID and one with 201, and the mutex is free.
C14_Witness ==
    /\ AllReturned
    /\ usersMutex = Unlocked
    /\ \E p, q, r \in DOMAIN pc :
           /\ res[p].status = StatusNotFound
           /\ res[q].status = StatusBadRequest
           /\ res[r].status = StatusCreated

\* C15 (as claimed): a successful Link(S,T), S = T included, leaves S's list
\* ending in T and T's list ending in S with the earlier entries in place,
\* two entries more in the store, and every other user as before.
C15_LinkAppendsTwoEntries ==
    \A s \in DOMAIN users, t \in DOMAIN users :
        LET r == Link(s, t)
            IsAppended(new, old, x) ==
                /\ Len(new) > Len(old)
                /\ SubSeq(new, 1, Len(old)) = old
                /\ new[Len(new)] = x
        IN  /\ r.status = StatusOK
            /\ IsAppended(r.users[s].Friends, users[s].Friends, t)
            /\ IsAppended(r.users[t].Friends, users[t].Friends, s)
            /\ Entries(r.users) = Entries(users) + 2
            /\ DOMAIN r.users = DOMAIN users
            /\ \A o \in (DOMAIN users) \ {s, t} : r.users[o] = users[o]

\* The list left when the first k occurrences of x are taken out of friends.
RECURSIVE Pick(_, _, _)
Pick(friends, keep, i) ==
    IF i > Len(friends) THEN << >>
    ELSE (IF i \in keep THEN <<friends[i]>> ELSE << >>) \o Pick(friends, keep, i + 1)
WithoutFirst(friends, x, k) ==
    Pick(friends,
         {i \in 1..Len(friends) :
             friends[i] # x \/ Cardinality({j \in 1..i : friends[j] = x}) > k},
         1)
Min(a, b) == IF a < b THEN a ELSE b

\* C16: DeleteUser(X) of an existing X succeeds, removes X's record, and takes
\* out of the list of every remaining user F the first min(occurrences of F in
\* X's list, occurrences of X in F's list) occurrences of X, the other entries
\* staying in order; a user that X's list does not name is left as it was.
C16_DeleteRemovesFirstOccurrences ==
    \A x \in DOMAIN users :
        LET r == Delete(x)
        IN  /\ r.status = StatusOK
            /\ r.nextUserID = nextUserID
            /\ DOMAIN r.users = (DOMAIN users) \ {x}
            /\ \A f \in DOMAIN r.users :
                   LET k == Min(Count(users[x].Friends, f), Count(users[f].Friends, x))
                   IN  /\ r.users[f].Name = users[f].Name
                       /\ r.users[f].Age = users[f].Age
                       /\ r.users[f].Friends = WithoutFirst(users[f].Friends, x, k)
                       /\ Count(r.users[f].Friends, x) = Count(users[f].Friends, x) - k
                       /\ ~Occurs(users[x].Friends, f) => r.users[f] = users[f]

\* A DeleteUser succeeded last and a remaining user, once linked to the deleted
\* one, still has an entry for it.
C16_Witness ==
    /\ resp.op = "delete" /\ resp.status = StatusOK
    /\ \E f \in DOMAIN users :
           \E i \in 1..Len(issued) :
               /\ issued[i] \notin DOMAIN users
               /\ Count(users[f].Friends, issued[i]) = 1
               /\ Len(users[f].Friends) = 1

\* C17 (as claimed): no user's friend list holds the user's own ID, and no
\* Link of a user with itself succeeds.
C17_NoSelfFriendship ==
    /\ \A u \in DOMAIN users : ~Occurs(users[u].Friends, u)
    /\ \A u \in IDs : Link(u, u).status # StatusOK

\* The requests that are no well-formed create.
OtherReqs ==
    {r \in CreateReqs : ~r.valid} \cup MakeFriendsReqs \cup DeleteReqs
        \cup FriendsReqs \cup UsersReqs \cup UserAgeReqs

\* C18: the k-th successful create answered the decimal string of k, the
\* counter is 1 plus the number of successful creates (and the ID made from a
\* counter of one or two digits reads back as that number), and no request other
\* than a well-formed create moves it; a well-formed create succeeds with the
\* decimal string of the counter, which is no key yet, stores the supplied
\* record under it as given and leaves every existing record as it was.
C18_SequentialIDs ==
    /\ \A k \in 1..Len(issued) : issued[k] = Itoa(k) /\ Atoi(issued[k]) = k
    /\ nextUserID = Len(issued) + 1
    /\ \A n \in 1..(10 * MaxUsers + 1) : Atoi(generateUserID(n).id) = n
    /\ \A r \in OtherReqs : Handle(users, nextUserID, r).nextUserID = nextUserID
    /\ \A r \in CreateReqs :
           r.valid =>
               LET out == createUserHandler(users, nextUserID, r)
               IN  /\ out.status = StatusCreated
                   /\ Atoi(out.body) = nextUserID
                   /\ out.nextUserID = nextUserID + 1
                   /\ out.body \notin DOMAIN users
                   /\ DOMAIN out.users = (DOMAIN users) \cup {out.body}
                   /\ out.users[out.body] = r.user
                   /\ \A o \in DOMAIN users : out.users[o] = users[o]

\* Two creates succeeded, the first user was deleted, and a create with a body
\* that does not decode was refused last: the counter stands at 3.
C18_Witness ==
    /\ resp.op = "create" /\ resp.status = StatusBadRequest
    /\ issued = <<Itoa(1), Itoa(2)>>
    /\ DOMAIN users = {Itoa(2)}
    /\ nextUserID = 3

\* C19: when every user was created without friends, every ID in a friend
\* list is a key of the store, and for different users A and B the list of A
\* holds B as many times as the list of B holds A.
C19_NoStaleAndSymmetricCounts ==
    /\ \A a \in DOMAIN users :
           \A i \in 1..Len(users[a].Friends) : users[a].Friends[i] \in DOMAIN users
    /\ \A a \in DOMAIN users, b \in DOMAIN users :
           a # b => Count(users[a].Friends, b) = Count(users[b].Friends, a)

\* A DeleteUser succeeded last and the one user left, which was linked with
\* itself, holds its own ID and no entry for the deleted user.
C19_Witness ==
    /\ resp.op = "delete" /\ resp.status = StatusOK
    /\ nextUserID = 3
    /\ \E a \in DOMAIN users : DOMAIN users = {a} /\ users[a].Friends = <<a>>

====
